---- MODULE Spec2Model ----
(***************************************************************************)
(* Clinical Early Warning System (src/app.py): the SQLite store with its   *)
(* four tables, the ingestion handler, the risk scorer and the query       *)
(* handlers, each HTTP request running on its own database connection.     *)
(*                                                                         *)
(* A handler that writes is modelled statement by statement (SELECT,       *)
(* INSERT, INSERT, INSERT, COMMIT), because requests of the threaded       *)
(* development server interleave between statements.  SQLite gives one     *)
(* connection at a time the write lock, from its first INSERT to its       *)
(* COMMIT or rollback; readers see committed rows only.                    *)
(*                                                                         *)
(* Values: an SQL / JSON value is <<v>>, and NULL / None is <<>>.  A TEXT  *)
(* timestamp is the sequence of the character codes of isoformat()'s       *)
(* result.  A probability is an integer number of hundredths.              *)
(***************************************************************************)
EXTENDS Integers, Sequences, FiniteSets, TLC

VARIABLES
    utc,               \* the instant, in clock ticks since midnight UTC of day 0
    tz,                \* the server's local-time offset from UTC, in ticks
    patients,          \* table patients, in insertion order
    vital_signs,       \* table vital_signs, in record_id order
    risk_predictions,  \* table risk_predictions, in prediction_id order
    audit_log,         \* table audit_log, in log_id order
    lock,              \* the connection holding SQLite's write lock, 0 if none
    pc,                \* per connection: the statement its handler runs next
    data,              \* per connection: request.json (ingest) or the URL's id
    found,             \* per connection: whether ingest's SELECT fetched a row
    df,                \* per connection: the rows predict's SELECT fetched
    txn,               \* per connection: rows inserted and not yet committed
    response,          \* the HTTP response the step just taken sent, if any
    started            \* ingest transactions begun so far (bounds the model)

vars == <<utc, tz, patients, vital_signs, risk_predictions, audit_log, lock,
          pc, data, found, df, txn, response, started>>

tables == <<patients, vital_signs, risk_predictions, audit_log>>

-----------------------------------------------------------------------------
(* Bounds of the model. *)

\* Clock resolution: ticks in a second (the code's clock has 10^6).
TicksPerSec == 2
\* Seconds in a day (a real day has 86400).
SecsPerDay == 2
\* The clock stops this many ticks after the server started.
MaxTicks == 1
\* Ingest transactions begun in one run.
MaxIngests == 2
\* Rows of risk_predictions written in one run.
MaxPredictions == 1

\* LIMIT 50 of get_vitals.
VitalsLimit == 50
\* LIMIT 10 of get_dashboard_data's recent predictions.
RecentLimit == 10
\* risk_proba > 0.7, in hundredths.
HighThreshold == 70
\* risk_proba > 0.4, in hundredths.
MediumThreshold == 40

TicksPerDay == TicksPerSec * SecsPerDay

\* The database connections open at once: two concurrent requests.
Conns == {1, 2}

Null == <<>>
Some(v) == <<v>>

-----------------------------------------------------------------------------
(* Requests. *)

\* generate_data.py's PATIENTS roster (two of its eight entries).
PatientIds == {"P001", "P002"}

\* Payloads of POST /api/ingest: what send_data posts, and malformed ones.
FullPayload ==
    [patient_id |-> Some("P001"), age |-> Some(67), gender |-> Some("M"),
     ward |-> Some("ICU"), source_system |-> Some("ICU_Monitor_System"),
     heart_rate |-> Some(80), bp_systolic |-> Some(120),
     bp_diastolic |-> Some(80), respiratory_rate |-> Some(16),
     temperature |-> Some(370), oxygen_saturation |-> Some(98)]

\* The same patient with other demographics, abnormal vitals, no source label.
OtherDemographicsPayload ==
    [patient_id |-> Some("P001"), age |-> Some(45), gender |-> Some("F"),
     ward |-> Some("A&E"),
     heart_rate |-> Some(40), bp_systolic |-> Some(80),
     bp_diastolic |-> Some(50), respiratory_rate |-> Some(8),
     temperature |-> Some(350), oxygen_saturation |-> Some(85)]

\* Only the identifier: no demographic field, no vital measurement.
BarePayload == [patient_id |-> Some("P002")]

\* No identifier.
NoIdPayload ==
    [age |-> Some(82), gender |-> Some("F"), ward |-> Some("Ward 3"),
     heart_rate |-> Some(80), bp_systolic |-> Some(120),
     bp_diastolic |-> Some(80), respiratory_rate |-> Some(16),
     temperature |-> Some(370), oxygen_saturation |-> Some(98)]

\* "patient_id": null.
NullIdPayload == [patient_id |-> Null, age |-> Some(82)]

Payloads == {FullPayload, OtherDemographicsPayload, BarePayload, NoIdPayload,
             NullIdPayload}

\* dict.get(key): the value, or None.
Get(d, key) == IF key \in DOMAIN d THEN d[key] ELSE Null

\* dict.get(key, default).
GetOr(d, key, default) == IF key \in DOMAIN d THEN d[key] ELSE Some(default)

-----------------------------------------------------------------------------
(* Time and its TEXT form. *)

\* datetime.now(): the server's local wall-clock time, in ticks.
now == utc + tz

\* Two decimal digits, zero-padded (%02d), as character codes.
Digits2(n) == <<48 + ((n \div 10) % 10), 48 + (n % 10)>>

\* datetime.isoformat(): date, "T", time of day, and the fraction unless it
\* is zero.  The date stands for YYYY-MM-DD, the time of day for HH:MM:SS.
isoformat(t) ==
    Digits2(t \div TicksPerDay) \o <<84>>
        \o Digits2((t % TicksPerDay) \div TicksPerSec)
        \o (IF t % TicksPerSec = 0 THEN <<>> ELSE <<46, 48 + (t % TicksPerSec)>>)

\* SQLite's date(timestamp): the date part of the text.
SqlDate(ts) == SubSeq(ts, 1, 2)

\* SQLite's date("now"): the current date in UTC.
SqlDateNow == Digits2(utc \div TicksPerDay)

\* SQLite's comparison of two TEXT values (BINARY collation): memcmp, the
\* shorter one first when it is a prefix of the other.
RECURSIVE TextLessFrom(_, _, _)
TextLessFrom(a, b, i) ==
    IF i > Len(b) THEN FALSE
    ELSE IF i > Len(a) THEN TRUE
    ELSE IF a[i] = b[i] THEN TextLessFrom(a, b, i + 1)
    ELSE a[i] < b[i]

TextLess(a, b) == TextLessFrom(a, b, 1)

\* ORDER BY key DESC over rows 1..n: the row numbers in result order.  Row j
\* comes after the rows of a greater key, and after the rows of an equal key
\* and a smaller rowid.
OrderByDesc(keys, n) ==
    LET place == [j \in 1..n |->
                    1 + Cardinality({m \in 1..n :
                                       \/ TextLess(keys[j], keys[m])
                                       \/ (m < j /\ keys[m] = keys[j])})] \o <<>>
    IN [i \in 1..n |-> CHOOSE j \in 1..n : place[j] = i]

\* LIMIT n.
Limit(rows, n) == SubSeq(rows, 1, IF Len(rows) < n THEN Len(rows) ELSE n)

\* WHERE patient_id = ?
WherePatient(rows, p) == SelectSeq(rows, LAMBDA row : row.patient_id = Some(p))

\* The ORDER BY clause left out: the rows come in rowid order.
OrderByTimestampDesc_Rowid(rows) == rows

\* ORDER BY timestamp DESC.
OrderByTimestampDesc(rows) ==
    LET order == OrderByDesc([i \in 1..Len(rows) |-> rows[i].timestamp], Len(rows))
    IN [i \in 1..Len(rows) |-> rows[order[i]]]

-----------------------------------------------------------------------------
(* The store and the connections. *)

\* hashlib.sha256(patient_id.encode()).hexdigest()[:16]
anonymize_patient_id(p) ==
    CASE p = "P001" -> "df1e40051eff4bcf"
      [] p = "P002" -> "eea502719605f8ec"

\* The SELECT without its WHERE clause: any patients row counts.
PatientExists_AnyRow(p) == Len(patients) > 0

\* c.fetchone() after SELECT patient_id FROM patients WHERE patient_id = ?
PatientExists(p) ==
    \E i \in 1..Len(patients) : patients[i].patient_id = Some(p)

\* The schema without PRIMARY KEY.
PrimaryKeyViolation_None(p) == FALSE

\* patient_id TEXT PRIMARY KEY: an INSERT of a key the table holds fails.
PrimaryKeyViolation(p) ==
    \E i \in 1..Len(patients) : patients[i].patient_id = Some(p)

NoData == <<>>
EmptyTxn == [patients |-> <<>>, vital_signs |-> <<>>, audit_log |-> <<>>]
NoResponse == [handler |-> "none", status |-> 0, body |-> <<>>]

\* jsonify({'status': 'error', 'message': str(e)}), code
ErrorResponse(h, code, msg) ==
    [handler |-> h, status |-> code,
     body |-> [status |-> "error", message |-> msg]]

\* The server starts on the last tick of a UTC day, in a timezone west of,
\* at, or east of Greenwich, on the empty schema init_db creates.
StartTime == TicksPerDay - 1
TzOffsets == {0 - TicksPerSec, 0, TicksPerSec}

Init ==
    /\ utc = StartTime
    /\ tz \in TzOffsets
    /\ patients = <<>>
    /\ vital_signs = <<>>
    /\ risk_predictions = <<>>
    /\ audit_log = <<>>
    /\ lock = 0
    /\ pc = [r \in Conns |-> "idle"]
    /\ data = [r \in Conns |-> NoData]
    /\ found = [r \in Conns |-> FALSE]
    /\ df = [r \in Conns |-> <<>>]
    /\ txn = [r \in Conns |-> EmptyTxn]
    /\ response = NoResponse
    /\ started = 0

\* The clock advances.
Tick ==
    /\ utc < StartTime + MaxTicks
    /\ utc' = utc + 1
    /\ response' = NoResponse
    /\ UNCHANGED <<tz, tables, lock, pc, data, found, df, txn, started>>

\* The handler returns: its connection is dropped, and with it whatever it
\* inserted and did not commit, and the write lock if it held it.
Close(r) ==
    /\ pc' = [pc EXCEPT ![r] = "idle"]
    /\ data' = [data EXCEPT ![r] = NoData]
    /\ found' = [found EXCEPT ![r] = FALSE]
    /\ df' = [df EXCEPT ![r] = <<>>]
    /\ txn' = [txn EXCEPT ![r] = EmptyTxn]
    /\ lock' = IF lock = r THEN 0 ELSE lock

-----------------------------------------------------------------------------
(* POST /api/ingest *)

PatientRow(d, p, ts) ==
    [patient_id |-> Some(p), age |-> Get(d, "age"), gender |-> Get(d, "gender"),
     admission_date |-> ts, ward |-> Get(d, "ward"),
     anonymized_id |-> Some(anonymize_patient_id(p))]

VitalsRow(d, p, id, ts) ==
    [record_id |-> id, patient_id |-> Some(p), timestamp |-> ts,
     heart_rate |-> Get(d, "heart_rate"),
     blood_pressure_systolic |-> Get(d, "bp_systolic"),
     blood_pressure_diastolic |-> Get(d, "bp_diastolic"),
     respiratory_rate |-> Get(d, "respiratory_rate"),
     temperature |-> Get(d, "temperature"),
     oxygen_saturation |-> Get(d, "oxygen_saturation"),
     source_system |-> GetOr(d, "source_system", "unknown")]

AuditRow(d, p, id, ts) ==
    [log_id |-> id, timestamp |-> ts, action |-> "DATA_INGEST",
     user_id |-> "system", patient_id |-> Some(anonymize_patient_id(p)),
     details |-> <<"Source: ", GetOr(d, "source_system", "unknown")>>]

\* data['patient_id'] raises KeyError when the key is missing, and
\* patient_id.encode() raises AttributeError when the value is null.
IngestRejects(d) == "patient_id" \notin DOMAIN d \/ d.patient_id = Null

RejectMessage(d) ==
    IF "patient_id" \notin DOMAIN d THEN "'patient_id'"
    ELSE "'NoneType' object has no attribute 'encode'"

\* Lines 89-100: read the payload, take the identifier, SELECT the patient.
IngestSelect(r, d) ==
    /\ pc[r] = "idle"
    /\ IF IngestRejects(d)
       THEN /\ response' = ErrorResponse("ingest", 400, RejectMessage(d))
            /\ UNCHANGED <<pc, data, found, started>>
       ELSE /\ started < MaxIngests
            /\ started' = started + 1
            /\ data' = [data EXCEPT ![r] = d]
            /\ found' = [found EXCEPT ![r] = PatientExists(d.patient_id[1])]
            /\ pc' = [pc EXCEPT ![r] =
                        IF PatientExists(d.patient_id[1])
                        THEN "insert_vitals" ELSE "insert_patient"]
            /\ response' = NoResponse
    /\ UNCHANGED <<utc, tz, tables, lock, df, txn>>

\* Lines 100-105: INSERT INTO patients, when the SELECT fetched no row.  The
\* INSERT waits for the write lock; on a key the table holds by now it
\* raises IntegrityError, and the handler answers 400.
IngestInsertPatient(r) ==
    /\ pc[r] = "insert_patient"
    /\ lock \in {0, r}
    /\ LET p == data[r].patient_id[1] IN
       IF PrimaryKeyViolation(p)
       THEN /\ Close(r)
            /\ response' = ErrorResponse("ingest", 400,
                               "UNIQUE constraint failed: patients.patient_id")
       ELSE /\ lock' = r
            /\ txn' = [txn EXCEPT ![r].patients = <<PatientRow(data[r], p, isoformat(now))>>]
            /\ pc' = [pc EXCEPT ![r] = "insert_vitals"]
            /\ response' = NoResponse
            /\ UNCHANGED <<data, found, df>>
    /\ UNCHANGED <<utc, tz, tables, started>>

\* Lines 108-117: INSERT INTO vital_signs.
IngestInsertVitals(r) ==
    /\ pc[r] = "insert_vitals"
    /\ lock \in {0, r}
    /\ lock' = r
    /\ txn' = [txn EXCEPT ![r].vital_signs =
                  <<VitalsRow(data[r], data[r].patient_id[1], Len(vital_signs) + 1,
                              isoformat(now))>>]
    /\ pc' = [pc EXCEPT ![r] = "insert_audit"]
    /\ response' = NoResponse
    /\ UNCHANGED <<utc, tz, tables, data, found, df, started>>

\* Lines 120-124: INSERT INTO audit_log.
IngestInsertAudit(r) ==
    /\ pc[r] = "insert_audit"
    /\ lock = r
    /\ txn' = [txn EXCEPT ![r].audit_log =
                  <<AuditRow(data[r], data[r].patient_id[1], Len(audit_log) + 1,
                             isoformat(now))>>]
    /\ pc' = [pc EXCEPT ![r] = "commit"]
    /\ response' = NoResponse
    /\ UNCHANGED <<utc, tz, tables, lock, data, found, df, started>>

\* An upsert: the patient's demographics are overwritten from the payload.
IngestCommit_Upsert(r) ==
    /\ pc[r] = "commit"
    /\ lock = r
    /\ patients' =
         [i \in 1..Len(patients) |->
            IF patients[i].patient_id = data[r].patient_id
            THEN [patients[i] EXCEPT !.age = Get(data[r], "age"),
                                     !.gender = Get(data[r], "gender"),
                                     !.ward = Get(data[r], "ward")]
            ELSE patients[i]] \o txn[r].patients
    /\ vital_signs' = vital_signs \o txn[r].vital_signs
    /\ audit_log' = audit_log \o txn[r].audit_log
    /\ Close(r)
    /\ response' =
         [handler |-> "ingest", status |-> 201,
          body |-> [status |-> "success",
                    message |-> "Data ingested successfully",
                    anonymized_id |-> anonymize_patient_id(data[r].patient_id[1])]]
    /\ UNCHANGED <<utc, tz, risk_predictions, started>>

\* Only the latest reading of a patient is kept: the older ones are deleted.
IngestCommit_Replace(r) ==
    /\ pc[r] = "commit"
    /\ lock = r
    /\ patients' = patients \o txn[r].patients
    /\ vital_signs' = txn[r].vital_signs
    /\ audit_log' = audit_log \o txn[r].audit_log
    /\ Close(r)
    /\ response' =
         [handler |-> "ingest", status |-> 201,
          body |-> [status |-> "success",
                    message |-> "Data ingested successfully",
                    anonymized_id |-> anonymize_patient_id(data[r].patient_id[1])]]
    /\ UNCHANGED <<utc, tz, risk_predictions, started>>

\* Lines 126-133: COMMIT, close, answer 201.
IngestCommit(r) ==
    /\ pc[r] = "commit"
    /\ lock = r
    /\ patients' = patients \o txn[r].patients
    /\ vital_signs' = vital_signs \o txn[r].vital_signs
    /\ audit_log' = audit_log \o txn[r].audit_log
    /\ Close(r)
    /\ response' =
         [handler |-> "ingest", status |-> 201,
          body |-> [status |-> "success",
                    message |-> "Data ingested successfully",
                    anonymized_id |-> anonymize_patient_id(data[r].patient_id[1])]]
    /\ UNCHANGED <<utc, tz, risk_predictions, started>>

\* A connection in autocommit mode: what was inserted before the failure
\* stays in the store.
IngestStorageFailure_Autocommit(r) ==
    /\ pc[r] \in {"insert_patient", "insert_vitals", "insert_audit", "commit"}
    /\ patients' = patients \o txn[r].patients
    /\ vital_signs' = vital_signs \o txn[r].vital_signs
    /\ audit_log' = audit_log \o txn[r].audit_log
    /\ Close(r)
    /\ response' = ErrorResponse("ingest", 400, "database is locked")
    /\ UNCHANGED <<utc, tz, risk_predictions, started>>

\* Lines 135-136: a statement or the COMMIT raises sqlite3.OperationalError
\* (the lock wait times out, the disk fails); the handler answers 400.
IngestStorageFailure(r) ==
    /\ pc[r] \in {"insert_patient", "insert_vitals", "insert_audit", "commit"}
    /\ Close(r)
    /\ response' = ErrorResponse("ingest", 400, "database is locked")
    /\ UNCHANGED <<utc, tz, tables, started>>

-----------------------------------------------------------------------------
(* POST /api/predict/<patient_id> *)

\* predict_proba(...)[0][1] of the fitted forest, in hundredths: the values
\* at and next to the two thresholds, and the two ends of [0, 1].
Probabilities == {0, 40, 41, 70, 71, 100}

\* The thresholds taken inclusively.
RiskLevel_Inclusive(risk_proba) ==
    IF risk_proba >= HighThreshold THEN "HIGH"
    ELSE IF risk_proba >= MediumThreshold THEN "MEDIUM"
    ELSE "LOW"

\* Lines 257-262.
RiskLevel(risk_proba) ==
    IF risk_proba > HighThreshold THEN "HIGH"
    ELSE IF risk_proba > MediumThreshold THEN "MEDIUM"
    ELSE "LOW"

\* Lines 265-269: the forest's feature importances, one text per feature
\* (the text's number depends on the fitted forest and is left out).
ContributingFactors ==
    <<"heart_rate", "bp_systolic", "bp_diastolic", "respiratory_rate",
      "temperature", "oxygen_saturation">>

\* The query without its WHERE clause: the latest reading of any patient.
LatestVitals_AnyPatient(p) ==
    LET rows == Limit(OrderByTimestampDesc(vital_signs), 1)
    IN [i \in 1..Len(rows) |->
          <<rows[i].heart_rate, rows[i].blood_pressure_systolic,
            rows[i].blood_pressure_diastolic, rows[i].respiratory_rate,
            rows[i].temperature, rows[i].oxygen_saturation>>]

\* Lines 236-244: the six measurements of the patient's latest reading.
LatestVitals(p) ==
    LET rows == Limit(OrderByTimestampDesc(WherePatient(vital_signs, p)), 1)
    IN [i \in 1..Len(rows) |->
          <<rows[i].heart_rate, rows[i].blood_pressure_systolic,
            rows[i].blood_pressure_diastolic, rows[i].respiratory_rate,
            rows[i].temperature, rows[i].oxygen_saturation>>]

\* The check left out.
DfEmpty_Never(rows) == FALSE

\* df.empty
DfEmpty(rows) == Len(rows) = 0

\* Predictions written or about to be.
PredictionsBegun ==
    Len(risk_predictions) + Cardinality({c \in Conns : pc[c] = "predict_insert"})

\* Lines 226-247 and 295-300: SELECT the latest reading; without one
\* predict_patient_risk returns None and predict_risk answers 400.
PredictSelect(r, p) ==
    /\ pc[r] = "idle"
    /\ IF DfEmpty(LatestVitals(p))
       THEN /\ response' = ErrorResponse("predict", 400,
                                         "Unable to generate prediction")
            /\ UNCHANGED <<pc, data, df>>
       ELSE /\ PredictionsBegun < MaxPredictions
            /\ pc' = [pc EXCEPT ![r] = "predict_insert"]
            /\ data' = [data EXCEPT ![r] = [patient_id |-> Some(p)]]
            /\ df' = [df EXCEPT ![r] = LatestVitals(p)]
            /\ response' = NoResponse
    /\ UNCHANGED <<utc, tz, tables, lock, found, txn, started>>

\* Lines 250-285: scale, score, threshold, INSERT INTO risk_predictions,
\* COMMIT, answer 200.  The INSERT waits for the write lock.
PredictInsert(r, risk_proba) ==
    /\ pc[r] = "predict_insert"
    /\ lock = 0
    /\ risk_predictions' = Append(risk_predictions,
         [prediction_id |-> Len(risk_predictions) + 1,
          patient_id |-> data[r].patient_id,
          timestamp |-> isoformat(now),
          risk_score |-> risk_proba,
          risk_level |-> RiskLevel(risk_proba),
          contributing_factors |-> ContributingFactors])
    /\ Close(r)
    /\ response' =
         [handler |-> "predict", status |-> 200,
          body |-> [risk_score |-> risk_proba,
                    risk_level |-> RiskLevel(risk_proba),
                    contributing_factors |-> ContributingFactors]]
    /\ UNCHANGED <<utc, tz, patients, vital_signs, audit_log, started>>

\* Lines 287-289 and 299-300: an exception (a NULL measurement the installed
\* scikit-learn refuses, the lock wait timing out) is printed,
\* predict_patient_risk returns None and predict_risk answers 400.
PredictFailure(r) ==
    /\ pc[r] = "predict_insert"
    /\ Close(r)
    /\ response' = ErrorResponse("predict", 400, "Unable to generate prediction")
    /\ UNCHANGED <<utc, tz, tables, started>>

-----------------------------------------------------------------------------
(* The query handlers. *)

\* GET /api/patients
GetPatientsBody ==
    LET order == OrderByDesc([i \in 1..Len(patients) |-> patients[i].admission_date],
                             Len(patients))
    IN [i \in 1..Len(patients) |->
          [anonymized_id |-> patients[order[i]].anonymized_id,
           age |-> patients[order[i]].age,
           gender |-> patients[order[i]].gender,
           ward |-> patients[order[i]].ward,
           admission_date |-> patients[order[i]].admission_date]]

get_patients ==
    /\ response' = [handler |-> "get_patients", status |-> 200,
                    body |-> GetPatientsBody]
    /\ UNCHANGED <<utc, tz, tables, lock, pc, data, found, df, txn, started>>

\* The columns get_vitals selects.
VitalsRecord(row) ==
    [timestamp |-> row.timestamp, heart_rate |-> row.heart_rate,
     blood_pressure_systolic |-> row.blood_pressure_systolic,
     blood_pressure_diastolic |-> row.blood_pressure_diastolic,
     respiratory_rate |-> row.respiratory_rate,
     temperature |-> row.temperature,
     oxygen_saturation |-> row.oxygen_saturation,
     source_system |-> row.source_system]

\* GET /api/vitals/<patient_id>
GetVitalsBody(p) ==
    LET rows == Limit(OrderByTimestampDesc(WherePatient(vital_signs, p)), VitalsLimit)
    IN [i \in 1..Len(rows) |-> VitalsRecord(rows[i])]

get_vitals(p) ==
    /\ response' = [handler |-> "get_vitals", status |-> 200, patient_id |-> p,
                    body |-> GetVitalsBody(p)]
    /\ UNCHANGED <<utc, tz, tables, lock, pc, data, found, df, txn, started>>

\* SELECT COUNT(*) FROM <table> WHERE date(timestamp) = date("now")
CountToday(rows) ==
    Cardinality({i \in 1..Len(rows) : SqlDate(rows[i].timestamp) = SqlDateNow})

\* ... WHERE risk_level = "HIGH" AND date(timestamp) = date("now")
CountHighToday ==
    Cardinality({i \in 1..Len(risk_predictions) :
                   /\ risk_predictions[i].risk_level = "HIGH"
                   /\ SqlDate(risk_predictions[i].timestamp) = SqlDateNow})

\* FROM risk_predictions rp JOIN patients p ON rp.patient_id = p.patient_id
RECURSIVE JoinPatients(_)
JoinPatients(rows) ==
    IF Len(rows) = 0 THEN <<>>
    ELSE LET rp == Head(rows)
             ps == WherePatient(patients, rp.patient_id[1])
         IN [i \in 1..Len(ps) |->
               [anonymized_id |-> ps[i].anonymized_id,
                risk_level |-> rp.risk_level,
                risk_score |-> rp.risk_score,
                timestamp |-> rp.timestamp]]
            \o JoinPatients(Tail(rows))

\* GET /api/dashboard
GetDashboardBody ==
    [total_patients |-> Len(patients),
     readings_today |-> CountToday(vital_signs),
     high_risk_patients |-> CountHighToday,
     recent_predictions |->
         Limit(OrderByTimestampDesc(JoinPatients(risk_predictions)), RecentLimit)]

get_dashboard_data ==
    /\ response' = [handler |-> "get_dashboard_data", status |-> 200,
                    body |-> GetDashboardBody]
    /\ UNCHANGED <<utc, tz, tables, lock, pc, data, found, df, txn, started>>

-----------------------------------------------------------------------------
(* The server. *)

\* POST /api/ingest on the connections C, the payloads posted drawn from D.
IngestOf(C, D) ==
    \/ \E r \in C, d \in D : IngestSelect(r, d)
    \/ \E r \in C : IngestInsertPatient(r)
    \/ \E r \in C : IngestInsertVitals(r)
    \/ \E r \in C : IngestInsertAudit(r)
    \/ \E r \in C : IngestCommit(r)
    \/ \E r \in C : IngestStorageFailure(r)

Ingest(C) == IngestOf(C, Payloads)

\* GET /api/predict/<patient_id> on the connections C.
Predict(C) ==
    \/ \E r \in C, p \in PatientIds : PredictSelect(r, p)
    \/ \E r \in C, s \in Probabilities : PredictInsert(r, s)
    \/ \E r \in C : PredictFailure(r)

Next ==
    \/ Tick
    \/ Ingest(Conns)
    \/ Predict(Conns)
    \/ get_patients
    \/ \E p \in PatientIds : get_vitals(p)
    \/ get_dashboard_data

Spec == Init /\ [][Next]_vars

\* The ingestion endpoint alone, the monitors posting concurrently.
IngestNext ==
    \/ Tick
    \/ Ingest(Conns)

IngestSpec == Init /\ [][IngestNext]_vars

-----------------------------------------------------------------------------
(* The store after P001's first readings were ingested one after the       *)
(* other: the vitals history of a long-stay patient, and the scoring of a  *)
(* patient just admitted.                                                  *)

\* The instant of the i-th of n earlier readings: spread from midnight of
\* day 0 to the present.
EarlierInstant(i, n) == (i * StartTime) \div n

EarlierReadings(n) ==
    [i \in 1..n |->
       VitalsRow(FullPayload, "P001", i, isoformat(EarlierInstant(i, n)))]

EarlierAudit(n) ==
    [i \in 1..n |->
       AuditRow(FullPayload, "P001", i, isoformat(EarlierInstant(i, n)))]

\* The server idle, n readings of P001 in the store.
Admitted(n) ==
    /\ utc = StartTime
    /\ tz = 0
    /\ patients = <<PatientRow(FullPayload, "P001",
                               isoformat(EarlierInstant(1, n)))>>
    /\ vital_signs = EarlierReadings(n)
    /\ risk_predictions = <<>>
    /\ audit_log = EarlierAudit(n)
    /\ lock = 0
    /\ pc = [r \in Conns |-> "idle"]
    /\ data = [r \in Conns |-> NoData]
    /\ found = [r \in Conns |-> FALSE]
    /\ df = [r \in Conns |-> <<>>]
    /\ txn = [r \in Conns |-> EmptyTxn]
    /\ response = NoResponse
    /\ started = 0

\* One reading short of the history's limit; one connection serves P001's
\* monitor and the admission of P002.
HistoryInit == Admitted(VitalsLimit - 1)

HistoryNext ==
    \/ Tick
    \/ IngestOf({1}, {FullPayload, BarePayload})
    \/ \E p \in PatientIds : get_vitals(p)

HistorySpec == HistoryInit /\ [][HistoryNext]_vars

\* The scoring endpoint and the queries, after P001's first reading and
\* with the monitors silent.
ScoringInit == Admitted(1)

ScoringNext ==
    \/ Tick
    \/ Predict(Conns)
    \/ get_patients
    \/ \E p \in PatientIds : get_vitals(p)
    \/ get_dashboard_data

ScoringSpec == ScoringInit /\ [][ScoringNext]_vars

-----------------------------------------------------------------------------
(* What the properties below are stated with. *)

\* Table t holds a row of patient p (p as stored: <<id>>).
HasRowOf(t, p) == \E i \in 1..Len(t) : t[i].patient_id = p

\* The number of rows of t for patient p.
RowsOf(t, p) == Cardinality({i \in 1..Len(t) : t[i].patient_id = p})

\* Table t after the step is t with n rows appended.
Grows(t, tNext, n) ==
    /\ Len(tNext) = Len(t) + n
    /\ SubSeq(tNext, 1, Len(t)) = t

\* Connection r's ingest handler commits and answers in this step.
IngestReturns(r) ==
    /\ pc[r] \in {"insert_patient", "insert_vitals", "insert_audit", "commit"}
    /\ pc'[r] = "idle"
    /\ response'.handler = "ingest"

\* The instant a timestamp text denotes (datetime.fromisoformat), in ticks.
Instant(ts) ==
    ((ts[1] - 48) * 10 + (ts[2] - 48)) * TicksPerDay
        + ((ts[4] - 48) * 10 + (ts[5] - 48)) * TicksPerSec
        + (IF Len(ts) > 5 THEN ts[7] - 48 ELSE 0)

\* The calendar day of an instant.
DayOf(t) == t \div TicksPerDay

-----------------------------------------------------------------------------
(* C1: a successful ingest for an identifier the store holds no patient    *)
(* row of adds exactly one patients row (of that identifier), exactly one  *)
(* vital_signs row (of that identifier) and exactly one audit_log row,     *)
(* adds nothing to risk_predictions, and answers 201.                      *)
C1_NewPatientIngest ==
    [][\A r \in Conns :
          (IngestReturns(r) /\ response'.status = 201
             /\ ~HasRowOf(patients, data[r].patient_id))
          => /\ Grows(patients, patients', 1)
             /\ patients'[Len(patients')].patient_id = data[r].patient_id
             /\ Grows(vital_signs, vital_signs', 1)
             /\ vital_signs'[Len(vital_signs')].patient_id = data[r].patient_id
             /\ Grows(audit_log, audit_log', 1)
             /\ risk_predictions' = risk_predictions]_vars

\* A first reading of P001 has just been ingested.
C1_Witness ==
    /\ response.handler = "ingest" /\ response.status = 201
    /\ Len(patients) = 1 /\ Len(vital_signs) = 1 /\ Len(audit_log) = 1
    /\ patients[1].patient_id = Some("P001")

(* C2: a successful ingest for an identifier that has a patients row adds  *)
(* no patients row and leaves every patients row as it was, whatever       *)
(* demographics the payload carries, and adds exactly one vital_signs row  *)
(* and exactly one audit_log row.                                          *)
C2_KnownPatientIngest ==
    [][\A r \in Conns :
          (IngestReturns(r) /\ response'.status = 201
             /\ HasRowOf(patients, data[r].patient_id))
          => /\ patients' = patients
             /\ Grows(vital_signs, vital_signs', 1)
             /\ vital_signs'[Len(vital_signs')].patient_id = data[r].patient_id
             /\ Grows(audit_log, audit_log', 1)
             /\ risk_predictions' = risk_predictions]_vars

\* P001 was admitted with age 67, and a reading posted with age 45 has just
\* been ingested.
C2_Witness ==
    /\ response.handler = "ingest" /\ response.status = 201
    /\ Len(patients) = 1 /\ patients[1].age = Some(67)
    /\ Len(vital_signs) = 2 /\ vital_signs[2].heart_rate = Some(40)
    /\ Len(audit_log) = 2

(* C3: in every committed store state every vital_signs row and every      *)
(* risk_predictions row has the patient_id of some patients row.           *)
C3_RowsReferencePatients ==
    /\ \A i \in 1..Len(vital_signs) : HasRowOf(patients, vital_signs[i].patient_id)
    /\ \A i \in 1..Len(risk_predictions) :
          HasRowOf(patients, risk_predictions[i].patient_id)

\* A reading and a prediction are stored.
C3_Witness == Len(vital_signs) > 0 /\ Len(risk_predictions) > 0

\* The fields the ingestion payload is said to require.
RequiredFields ==
    {"patient_id", "age", "gender", "ward", "heart_rate", "bp_systolic",
     "bp_diastolic", "respiratory_rate", "temperature", "oxygen_saturation"}

(* C4 as stated: an ingest whose payload lacks the identifier, a           *)
(* demographic field or a vital measurement answers 400 and leaves the     *)
(* four tables as they were.  (A payload without the identifier never      *)
(* reaches a statement; this is about the ones that do.)                   *)
C4_AnyMissingFieldFails ==
    [][\A r \in Conns :
          (IngestReturns(r) /\ ~(RequiredFields \subseteq DOMAIN data[r]))
          => (response'.status = 400 /\ tables' = tables)]_vars

(* C4 as amended: an ingest answers 201 or 400; an ingest that answers 400 *)
(* (no or a null identifier, a failed statement or commit) leaves the four *)
(* tables as they were; only a payload with an identifier reaches a        *)
(* statement; and a payload with the identifier and without demographic   *)
(* or vital fields that commits answers 201, its missing values NULL.      *)
C4_FailureLeavesNoRows ==
    [][/\ response'.handler = "ingest" =>
            /\ response'.status \in {201, 400}
            /\ response'.status = 400 => tables' = tables
       /\ \A r \in Conns :
            /\ pc'[r] # "idle" => ~IngestRejects(data'[r])
            /\ (IngestReturns(r) /\ tables' # tables) =>
                  /\ response'.status = 201
                  /\ vital_signs'[Len(vital_signs')].heart_rate
                        = Get(data[r], "heart_rate")
                  /\ vital_signs'[Len(vital_signs')].patient_id
                        = data[r].patient_id]_vars

\* A reading without any measurement was committed (NULL in its columns),
\* and a second ingest, its transaction begun, has just failed: it answered
\* 400 and the store holds the first reading's rows and nothing else.
C4_Witness ==
    /\ response.handler = "ingest" /\ response.status = 400
    /\ response.body.message = "database is locked"
    /\ started = 2
    /\ Len(patients) = 1 /\ Len(vital_signs) = 1 /\ Len(audit_log) = 1
    /\ vital_signs[1].heart_rate = Null

(* C5: predict for an identifier with no vital_signs row answers 400       *)
(* "Unable to generate prediction" at once, changes no table, and no       *)
(* risk_predictions row is ever of a patient without a reading.            *)
C5_NoReadingNoPrediction ==
    [][/\ \A r \in Conns, p \in PatientIds :
            (PredictSelect(r, p) /\ ~HasRowOf(vital_signs, Some(p)))
            => /\ response' = ErrorResponse("predict", 400,
                                            "Unable to generate prediction")
               /\ pc'[r] = "idle"
               /\ tables' = tables
       /\ \A i \in 1..Len(risk_predictions') :
            HasRowOf(vital_signs', risk_predictions'[i].patient_id)]_vars

\* Predict has just answered 400 while P001 has a reading and P002 has none.
C5_Witness ==
    /\ response.handler = "predict" /\ response.status = 400
    /\ \A r \in Conns : pc[r] = "idle"
    /\ HasRowOf(vital_signs, Some("P001"))
    /\ ~HasRowOf(vital_signs, Some("P002"))
    /\ Len(risk_predictions) = 0

(* C6: a prediction of probability s answers HIGH if s > 0.7, MEDIUM if    *)
(* 0.4 < s <= 0.7 and LOW otherwise (0.7 gives MEDIUM, 0.4 gives LOW), and  *)
(* the row it stores has the score and the level it answers.               *)
C6_RiskLevelThresholds ==
    (response.handler = "predict" /\ response.status = 200) =>
        LET s == response.body.risk_score
            level == response.body.risk_level
            row == risk_predictions[Len(risk_predictions)]
        IN /\ s > 70 => level = "HIGH"
           /\ (s > 40 /\ s <= 70) => level = "MEDIUM"
           /\ s <= 40 => level = "LOW"
           /\ row.risk_level = level
           /\ row.risk_score = s

\* A prediction of exactly 0.7 has just been answered.
C6_Witness ==
    /\ response.handler = "predict" /\ response.status = 200
    /\ response.body.risk_score = 70
    /\ response.body.risk_level = "MEDIUM"

(* C7: no step updates or deletes a row: every row of each of the four     *)
(* tables is still there, unchanged and in its place, after the step; and  *)
(* a step of a query handler leaves the four tables as they were.          *)
C7_WriteOnce ==
    [][/\ \E n \in 0..1 : Grows(patients, patients', n)
       /\ \E n \in 0..1 : Grows(vital_signs, vital_signs', n)
       /\ \E n \in 0..1 : Grows(risk_predictions, risk_predictions', n)
       /\ \E n \in 0..1 : Grows(audit_log, audit_log', n)
       /\ response'.handler \in {"get_patients", "get_vitals", "get_dashboard_data"}
            => tables' = tables]_vars

\* The dashboard has just been served from a store holding two readings and
\* a prediction.
C7_Witness ==
    /\ response.handler = "get_dashboard_data"
    /\ Len(vital_signs) = 2 /\ Len(risk_predictions) = 1

(* C9: readings_today is the number of vital_signs rows whose timestamp is *)
(* of the server's current date, at any time of day.                       *)
C9_ReadingsToday ==
    response.handler = "get_dashboard_data" =>
        response.body.readings_today =
            Cardinality({i \in 1..Len(vital_signs) :
                           DayOf(Instant(vital_signs[i].timestamp)) = DayOf(now)})

(* C10 as stated: when a request's SELECT found no patients row and        *)
(* another request has committed one of the same identifier before its     *)
(* INSERT INTO patients runs, the INSERT goes through (and the store ends  *)
(* with two patients rows of the identifier).                              *)
C10_RaceDoubleInserts ==
    [][\A r \in Conns :
          (IngestInsertPatient(r) /\ HasRowOf(patients, data[r].patient_id))
          => /\ pc'[r] = "insert_vitals"
             /\ Len(txn'[r].patients) = 1]_vars

(* C10 as amended: no two patients rows have the same patient_id, neither  *)
(* in the store nor in the store with what a connection is about to        *)
(* commit; the INSERT of the request that lost the race fails and the     *)
(* request answers 400.                                                    *)
C10_PatientIdUnique ==
    /\ \A i, j \in 1..Len(patients) :
          patients[i].patient_id = patients[j].patient_id => i = j
    /\ \A r \in Conns : \A k \in 1..Len(txn[r].patients) :
          ~HasRowOf(patients, txn[r].patients[k].patient_id)

\* The race has just been lost: both requests' SELECTs found no row (two
\* ingests begun, one patient), and the second INSERT failed on the key.
C10_Witness ==
    /\ response.handler = "ingest" /\ response.status = 400
    /\ response.body.message = "UNIQUE constraint failed: patients.patient_id"
    /\ Len(patients) = 1 /\ Len(vital_signs) = 1

-----------------------------------------------------------------------------
(* C8: get_vitals(p) answers min(50, n) records, n the number of           *)
(* vital_signs rows of p; each is a row of p; no record's timestamp is     *)
(* later than the one before it; and no row of p left out has a timestamp  *)
(* later than a record's.                                                  *)
C8_VitalsHistory ==
    (response.handler = "get_vitals" /\ response.status = 200) =>
        LET p == Some(response.patient_id)
            body == response.body
            n == RowsOf(vital_signs, p)
            oldest == Instant(body[Len(body)].timestamp)
        IN /\ Len(body) = IF n < 50 THEN n ELSE 50
           /\ \A i \in 1..Len(body) :
                \E j \in 1..Len(vital_signs) :
                    /\ vital_signs[j].patient_id = p
                    /\ vital_signs[j].timestamp = body[i].timestamp
                    /\ vital_signs[j].heart_rate = body[i].heart_rate
           /\ \A i \in 1..(Len(body) - 1) :
                Instant(body[i + 1].timestamp) <= Instant(body[i].timestamp)
           /\ Len(body) > 0 =>
                Cardinality({j \in 1..Len(vital_signs) :
                               /\ vital_signs[j].patient_id = p
                               /\ Instant(vital_signs[j].timestamp) > oldest})
                  = Cardinality({i \in 1..Len(body) :
                                   Instant(body[i].timestamp) > oldest})

\* P001's history has just been served from 51 readings: 50 records, the
\* first later than the last.
C8_Witness ==
    /\ response.handler = "get_vitals" /\ response.patient_id = "P001"
    /\ RowsOf(vital_signs, Some("P001")) = 51
    /\ Len(response.body) = 50
    /\ Instant(response.body[1].timestamp) > Instant(response.body[50].timestamp)

====
